---- MODULE Spec2Model ----
(***************************************************************************)
(* Model of the Dashboard component (App.tsx), of the feed services        *)
(* (services/api.ts) and of the two session providers (AuthContext.tsx,    *)
(* AnalyticsDashboard.tsx): the live threat store, the attack alert, the   *)
(* node panel, the detail selection, the toast and the timers.  One action *)
(* per handler; a handler's batched state setters, the render they cause   *)
(* and its effects are one atomic step of the event loop.                  *)
(***************************************************************************)
EXTENDS Integers, Sequences, FiniteSets, TLC

VARIABLES
    isAuthenticated,      \* AuthContext.tsx:19; the Dashboard is mounted iff it is TRUE
    eventSource,          \* api.ts:124  the EventSource of the mounted Dashboard:
                          \*             "none", "live" (connecting or open) or "closed"
    connections,          \* number of EventSource objects not yet closed
    keyRender,            \* App.tsx:211 the liveThreats and isBackendConnected of
                          \*             the render whose navigateThreat the keydown
                          \*             listener holds
    liveThreats,          \* App.tsx:101  sequence of Threat, most recent first
    isBackendConnected,   \* App.tsx:102
    toast,                \* App.tsx:103  Null or [message, type]; seq stands for
                          \*              the identity of the object
    toastTimers,          \* App.tsx:191  the toasts (by seq) whose setTimeout is pending
    attackAlert,          \* App.tsx:104  Null or Threat
    isAlertAcknowledged,  \* App.tsx:105
    selectedThreat,       \* App.tsx:98   Null or Threat
    searchQuery,          \* App.tsx:108
    filterType,           \* App.tsx:109  'all' or an attack type
    rebootingIndex,       \* App.tsx:112  NoIndex or 0..2
    nodes,                \* App.tsx:113  function 0..2 -> NodeStatus
    seedState,            \* the fetchThreats(20) promise: "pending" or "settled"
    rebootTimers,         \* pending setTimeout callbacks of handleNodeAction, per node
    staleTimers,          \* pending setTimeout callbacks of handleNodeAction that
                          \* belong to a Dashboard since unmounted
    authProvider,         \* AnalyticsDashboard.tsx:396  the AuthProvider with the
                          \* inactivity timeout: its state, its ref, its listeners
                          \* and the timers it has pending
    blockInFlight,        \* number of blockIP requests awaiting their response
    lastEvent,            \* history: the handler that ran last
    delivered,            \* history: number of stream messages handed to onThreat
    accepted,             \* history: number of arrivals whose id was not in the store
    lastAccepted,         \* history: the most recent such arrival, or Null
    maxId,                \* history: highest backend id seen so far
    reboots,              \* history: number of reboot requests made
    rebootSnap,           \* history: node 0's requests and the accepted count
                          \*          at the latest reboot request for node 0
    blocks,               \* history: number of blockIP requests made
    blockSnap             \* history: the selection when the latest blockIP request
                          \*          was sent, while a request is in flight

vars == <<isAuthenticated, eventSource, connections, staleTimers, authProvider,
          keyRender, blockSnap,
          liveThreats, isBackendConnected, toast, toastTimers, attackAlert,
          isAlertAcknowledged, selectedThreat, searchQuery, filterType,
          rebootingIndex, nodes,
          seedState, rebootTimers, blockInFlight,
          lastEvent, delivered, accepted, lastAccepted, maxId, reboots,
          rebootSnap, blocks>>

feedVars  == <<liveThreats, isBackendConnected>>
alertVars == <<attackAlert, isAlertAcknowledged>>
viewVars  == <<searchQuery, filterType>>
sessionVars == <<isAuthenticated, eventSource, connections, staleTimers, authProvider>>
toastVars == <<toast, toastTimers>>
quietVars == <<sessionVars, keyRender, blockSnap, viewVars>>
nodeVars  == <<rebootingIndex, nodes, rebootTimers>>
feedHist  == <<delivered, accepted, lastAccepted, maxId>>
nodeHist  == <<reboots, rebootSnap>>
histVars  == <<feedHist, nodeHist, blocks>>

----------------------------------------------------------------------------
(* Bounds of the model *)

MaxId == 1              \* Spec: backend ids are 1..MaxId
MaxSeedLen == 1         \* Spec: largest seed batch
MaxInputs == 2          \* Spec: stream messages, reboot and blockIP requests in all
FeedMaxId == 3          \* SpecFeed: backend ids are 1..FeedMaxId
FeedMaxArrivals == 3    \* SpecFeed: stream messages delivered
FeedMaxSeedLen == 3     \* SpecFeed: largest seed batch
NodesMaxId == 1         \* SpecNodes: backend ids are 1..NodesMaxId
NodesMaxArrivals == 3   \* SpecNodes: stream messages delivered
NodesMaxReboots == 3    \* SpecNodes: reboot requests made
FilterMaxId == 7        \* SpecFilter: backend ids are 1..FilterMaxId
DetailMaxId == 2        \* SpecDetail: backend ids are 1..DetailMaxId
DetailMaxArrivals == 2  \* SpecDetail: stream messages delivered
StreamMaxId == 2        \* SpecStream: backend ids are 1..StreamMaxId
StreamMaxArrivals == 2  \* SpecStream: stream messages handed to onThreat
SessionMaxId == 2       \* SpecSession: backend ids are 1..SessionMaxId
SessionMaxArrivals == 2 \* SpecSession: stream messages delivered
BlockMaxId == 1         \* SpecBlock: backend ids are 1..BlockMaxId
BlockMaxArrivals == 1   \* SpecBlock: stream messages delivered
BlockMaxRequests == 2   \* SpecBlock: blockIP requests made
GeoMaxId == 16          \* SpecGeo: the records GeoLog(1..GeoMaxId)
GeoMaxArrivals == 2     \* SpecGeo: stream messages delivered
ConfMaxId == 1          \* SpecConfidence: backend ids are 1..ConfMaxId
ConfMaxArrivals == 1    \* SpecConfidence: stream messages delivered
ProviderMaxTimers == 4  \* SpecProvider: timeouts set
TeardownMaxReboots == 2 \* SpecTeardown: reboot requests made
TeardownMaxBlocks == 2  \* SpecTeardown: blockIP requests made
RandomSteps == 60       \* Math.random() is one of 0/RandomSteps .. (RandomSteps-1)/RandomSteps
LongMaxId == 52         \* backend ids of the long specification are 1..LongMaxId
LongMaxDups == 1        \* repeated ids delivered in the long specification

(* Program constants *)

StoreBound == 50        \* App.tsx:157  .slice(0, 50)
SeedLimit == 20         \* App.tsx:143  fetchThreats(20)
DisplayWindow == 6      \* App.tsx:121  Math.max(0, 6 - liveThreats.length)

Null == [null |-> TRUE]
NoIndex == -1           \* rebootingIndex === null

Min(a, b) == IF a < b THEN a ELSE b
Max(a, b) == IF a > b THEN a ELSE b

----------------------------------------------------------------------------
(* Threats.  A Threat is identified by id; confidence is synthesized anew   *)
(* by every transformToThreat call, so two arrivals of one backend record   *)
(* are different objects with the same id.                                  *)

(* A Threat carries id, type, ip, location, confidence, severity and       *)
(* description; image and timestamp are display values no handler reads.    *)
(* An id is kept as the backend's integer: String(log.id) is one-to-one,    *)
(* and the fallback ids '1'..'6' are the integers 1..6.                     *)

Confidences == {85, 90}

PayloadCut == 100       \* api.ts:101  payload.substring(0, 100)
AgentCut == 50          \* api.ts:102  user_agent?.substring(0, 50)

\* String.prototype.toLowerCase, on the letters A..Z
LowerChar(c) ==
    CASE c = "A" -> "a" [] c = "B" -> "b" [] c = "C" -> "c" [] c = "D" -> "d"
      [] c = "E" -> "e" [] c = "F" -> "f" [] c = "G" -> "g" [] c = "H" -> "h"
      [] c = "I" -> "i" [] c = "J" -> "j" [] c = "K" -> "k" [] c = "L" -> "l"
      [] c = "M" -> "m" [] c = "N" -> "n" [] c = "O" -> "o" [] c = "P" -> "p"
      [] c = "Q" -> "q" [] c = "R" -> "r" [] c = "S" -> "s" [] c = "T" -> "t"
      [] c = "U" -> "u" [] c = "V" -> "v" [] c = "W" -> "w" [] c = "X" -> "x"
      [] c = "Y" -> "y" [] c = "Z" -> "z" [] OTHER -> c

RECURSIVE toLowerCase(_)
toLowerCase(str) ==
    IF Len(str) = 0 THEN ""
    ELSE IF Len(str) = 1 THEN LowerChar(str)
    ELSE LET mid == Len(str) \div 2
         IN  toLowerCase(SubSeq(str, 1, mid))
                 \o toLowerCase(SubSeq(str, mid + 1, Len(str)))

\* String.prototype.includes
includes(str, search) ==
    \E k \in 0..(Len(str) - Len(search)) : SubSeq(str, k + 1, k + Len(search)) = search

\* String.prototype.substring(0, n)
substring0(str, n) == SubSeq(str, 1, IF n < Len(str) THEN n ELSE Len(str))

\* getSeverity
getSeverity(attackType) ==
    CASE attackType = "SQL Injection" -> "critical"
      [] attackType = "Command Injection" -> "critical"
      [] attackType = "XSS" -> "high"
      [] attackType = "Directory Traversal" -> "high"
      [] attackType = "Brute Force" -> "medium"
      [] attackType = "Port Scan" -> "low"
      [] attackType = "Normal" -> "low"
      [] OTHER -> "medium"

\* the values Math.random() returns, as numerators over RandomSteps: 0 is
\* included, 1 is not
Randoms == 0..(RandomSteps - 1)

\* getConfidence, with k / RandomSteps the value Math.random() returns
getConfidence(attackType, k) ==
    IF attackType = "Normal"
    THEN ((k * 30) \div RandomSteps) + 20
    ELSE ((k * 15) \div RandomSteps) + 85

\* a field the parsed object does not have: reading it gives undefined
Absent == "<absent>"

\* the truth value JavaScript gives a string field in a condition
Truthy(x) == x # "" /\ x # Absent

\* a field inside a template literal
Template(x) == IF x = Absent THEN "undefined" ELSE x

\* String(log.id) of an object without id is 'undefined', which is the
\* String of no number
UndefinedId == 0

\* variant: the city is used whenever it is present, 'Unknown' included
locationAnyCity(log) ==
    IF Truthy(log.city)
    THEN Template(log.city) \o ", " \o Template(log.country)
    ELSE IF Truthy(log.country) THEN log.country ELSE "Unknown"

\* const location = ...
location(log) ==
    IF Truthy(log.city) /\ log.city # "Unknown"
    THEN Template(log.city) \o ", " \o Template(log.country)
    ELSE IF Truthy(log.country) THEN log.country ELSE "Unknown"

\* transformToThreat; confidence is the value getConfidence draws
transformToThreat(log, confidence) ==
    LET attackType == IF Truthy(log.attack_type) THEN log.attack_type ELSE "Unknown"
        agent == IF log.user_agent # Absent /\ substring0(log.user_agent, AgentCut) # ""
                 THEN substring0(log.user_agent, AgentCut) ELSE "Unknown"
    IN  [id |-> log.id,
         type |-> attackType,
         ip |-> log.ip_address,
         location |-> location(log),
         confidence |-> confidence,
         severity |-> getSeverity(attackType),
         description |->
            IF Truthy(log.payload)
            THEN "Payload detected: \"" \o substring0(log.payload, PayloadCut)
                 \o (IF Len(log.payload) > PayloadCut THEN "..." ELSE "")
                 \o "\". Target: " \o Template(log.endpoint)
                 \o " [" \o Template(log.method) \o "]"
            ELSE "Request to " \o Template(log.endpoint) \o " endpoint via "
                 \o Template(log.method) \o ". User-Agent: " \o agent \o "..."]

\* the backend's attack-log record number i: three kinds of record in turn
BackendLog(i) ==
    CASE i % 3 = 1 ->
           [id |-> i, ip_address |-> "203.0.113.7", country |-> "FR", city |-> "Paris",
            endpoint |-> "/login", method |-> "POST", payload |-> "' OR 1=1 --",
            user_agent |-> "sqlmap/1.7", attack_type |-> "SQL Injection"]
      [] i % 3 = 2 ->
           [id |-> i, ip_address |-> "198.51.100.9", country |-> "US", city |-> "Unknown",
            endpoint |-> "/search", method |-> "GET", payload |-> "",
            user_agent |-> "Mozilla/5.0", attack_type |-> "XSS"]
      [] OTHER ->
           [id |-> i, ip_address |-> "192.0.2.44", country |-> "", city |-> "",
            endpoint |-> "/admin", method |-> "POST", payload |-> "",
            user_agent |-> "", attack_type |-> ""]

Threat(i, c) == transformToThreat(BackendLog(i), c)

\* records that differ in city and country: every combination of an absent,
\* an empty, an 'Unknown' and a named value
Cities == <<Absent, "", "Unknown", "Paris">>
Countries == <<Absent, "", "Unknown", "FR">>

GeoLog(i) ==
    [id |-> i, ip_address |-> "203.0.113.7",
     country |-> Countries[(((i - 1) \div 4) % 4) + 1],
     city |-> Cities[((i - 1) % 4) + 1],
     endpoint |-> "/login", method |-> "POST", payload |-> "",
     user_agent |-> "curl/8.0", attack_type |-> "Port Scan"]

\* what JSON.parse gives for data that is JSON but not an attack-log
\* record (an object without the fields, a number, a string): every field
\* read is undefined
NonRecordLog ==
    [id |-> UndefinedId, ip_address |-> Absent, country |-> Absent, city |-> Absent,
     endpoint |-> Absent, method |-> Absent, payload |-> Absent,
     user_agent |-> Absent, attack_type |-> Absent]

MOCK_THREAT_LOGS ==
    << [id |-> 1, type |-> "SQL Injection", ip |-> "203.0.113.45",
        location |-> "Shanghai, CN", confidence |-> 98, severity |-> "critical",
        description |-> "Payload detected: \"' OR 1=1 --\". ML Model classified as malicious SQL interaction. Target: /login endpoint."],
       [id |-> 2, type |-> "XSS Attempt", ip |-> "198.51.100.23",
        location |-> "St. Petersburg, RU", confidence |-> 92, severity |-> "high",
        description |-> "Reflected Cross-Site Scripting vector identified in search parameter. Script tags detected in encoded URL."],
       [id |-> 3, type |-> "SSH Brute Force", ip |-> "185.199.108.153",
        location |-> "Lagos, NG", confidence |-> 89, severity |-> "medium",
        description |-> "Rapid authentication failures detected on port 22. 50 attempts in 3 seconds. Pattern matches dictionary attack."],
       [id |-> 4, type |-> "Directory Traversal", ip |-> "45.33.22.11",
        location |-> "Frankfurt, DE", confidence |-> 95, severity |-> "high",
        description |-> "Path manipulation attempt: \"../../../etc/passwd\". Blocked by WAF rule set #402."],
       [id |-> 5, type |-> "Port Scanning", ip |-> "104.244.42.1",
        location |-> "New York, US", confidence |-> 75, severity |-> "low",
        description |-> "Sequential TCP SYN scan detected across ports 1000-2000. Low rate, likely reconnaissance."],
       [id |-> 6, type |-> "Command Injection", ip |-> "91.234.11.8",
        location |-> "Bucharest, RO", confidence |-> 99, severity |-> "critical",
        description |-> "System call injected into image upload handler: \"; cat /etc/shadow\". Execution prevented in sandbox."] >>

Ids(s) == { s[k].id : k \in 1..Len(s) }

Take(s, n) == SubSeq(s, 1, Min(n, Len(s)))

\* prev.some((t) => t.id === newThreat.id)
Exists(prev, newThreat) == \E k \in 1..Len(prev) : prev[k].id = newThreat.id

\* variants of the updater: without the id test, with a slice one too long,
\* and with the stored entry replaced by the repeated arrival
MergeThreatNoDedup(prev, newThreat) ==
    Take(<<newThreat>> \o prev, StoreBound)

MergeThreatLongSlice(prev, newThreat) ==
    IF Exists(prev, newThreat)
    THEN prev
    ELSE Take(<<newThreat>> \o prev, StoreBound + 1)

MergeThreatReplace(prev, newThreat) ==
    IF Exists(prev, newThreat)
    THEN [k \in 1..Len(prev) |-> IF prev[k].id = newThreat.id THEN newThreat ELSE prev[k]]
    ELSE Take(<<newThreat>> \o prev, StoreBound)

\* the setLiveThreats updater of onThreat
MergeThreat(prev, newThreat) ==
    IF Exists(prev, newThreat)
    THEN prev
    ELSE Take(<<newThreat>> \o prev, StoreBound)

\* variant: the live entries are cut to make the window
allThreatsTruncated ==
    IF isBackendConnected /\ Len(liveThreats) > 0
    THEN Take(liveThreats \o MOCK_THREAT_LOGS, DisplayWindow)
    ELSE MOCK_THREAT_LOGS

\* the displayed list of a render with these liveThreats and
\* isBackendConnected
displayed(live, connected) ==
    IF connected /\ Len(live) > 0
    THEN live \o Take(MOCK_THREAT_LOGS, Max(0, DisplayWindow - Len(live)))
    ELSE MOCK_THREAT_LOGS

\* allThreats
allThreats == displayed(liveThreats, isBackendConnected)

\* the render of a listener that never reads its list, and the current one
NoRender == [liveThreats |-> << >>, isBackendConnected |-> FALSE]
ThisRender ==
    IF isBackendConnected /\ Len(liveThreats) > 0
    THEN [liveThreats |-> liveThreats, isBackendConnected |-> TRUE]
    ELSE NoRender

\* the allThreats the keydown listener holds
keyThreats == displayed(keyRender.liveThreats, keyRender.isBackendConnected)

\* attackTypes: the options of the filter dropdown
attackTypes == {"all"} \cup { allThreats[k].type : k \in 1..Len(allThreats) }

\* variants of the filter callback: the query is compared as typed; the
\* description is not searched
filterThreatsAsTyped(list, query, ftype) ==
    LET Test(threat) ==
            LET matchesSearch ==
                    \/ query = ""
                    \/ includes(toLowerCase(threat.type), query)
                    \/ includes(toLowerCase(threat.ip), query)
                    \/ includes(toLowerCase(threat.location), query)
                    \/ includes(toLowerCase(threat.description), query)
                matchesFilter == ftype = "all" \/ threat.type = ftype
            IN  matchesSearch /\ matchesFilter
    IN  SelectSeq(list, Test)

filterThreatsNoDescription(list, query, ftype) ==
    LET Test(threat) ==
            LET matchesSearch ==
                    \/ query = ""
                    \/ includes(toLowerCase(threat.type), toLowerCase(query))
                    \/ includes(toLowerCase(threat.ip), toLowerCase(query))
                    \/ includes(toLowerCase(threat.location), toLowerCase(query))
                matchesFilter == ftype = "all" \/ threat.type = ftype
            IN  matchesSearch /\ matchesFilter
    IN  SelectSeq(list, Test)

\* allThreats.filter(threat => ...)
filterThreats(list, query, ftype) ==
    LET Test(threat) ==
            LET matchesSearch ==
                    \/ query = ""
                    \/ includes(toLowerCase(threat.type), toLowerCase(query))
                    \/ includes(toLowerCase(threat.ip), toLowerCase(query))
                    \/ includes(toLowerCase(threat.location), toLowerCase(query))
                    \/ includes(toLowerCase(threat.description), toLowerCase(query))
                matchesFilter == ftype = "all" \/ threat.type = ftype
            IN  matchesSearch /\ matchesFilter
    IN  SelectSeq(list, Test)

\* filteredThreats
filteredThreats == filterThreats(allThreats, searchQuery, filterType)

\* filteredThreats.slice(0, 6): the cards of the grid
gridThreats == Take(filteredThreats, DisplayWindow)

\* "Showing {shown} of {count} threats"
shownCount == Len(gridThreats)
matchCount == Len(filteredThreats)

\* fetchThreats: the backend's n most recent records, newest first, each
\* transformed; a failed request or a non-OK response gives the empty list
fetchThreats(ok, n) ==
    IF ok THEN [k \in 1..n |-> Threat(n + 1 - k, 85)] ELSE << >>

----------------------------------------------------------------------------
(* Nodes *)

InitialNodes ==
    [i \in 0..2 |->
        CASE i = 0 -> [id |-> "n1", name |-> "Web-Honeypot-01", region |-> "US-East",
                       status |-> "active", uptime |-> "14d 2h", requests |-> 4521]
          [] i = 1 -> [id |-> "n2", name |-> "DB-Trap-Alpha", region |-> "EU-West",
                       status |-> "under_attack", uptime |-> "2d 5h", requests |-> 12890]
          [] i = 2 -> [id |-> "n3", name |-> "SSH-Decoy-X", region |-> "AP-South",
                       status |-> "active", uptime |-> "45d 1h", requests |-> 890]]

\* variant: the attacked node's uptime is reset as well
AttackNodesResetUptime(prevNodes) ==
    [prevNodes EXCEPT ![0].status = "under_attack", ![0].requests = @ + 1,
                      ![0].uptime = "0d 0h"]

\* the setNodes updater of onThreat
AttackNodes(prevNodes) ==
    [prevNodes EXCEPT ![0].status = "under_attack", ![0].requests = @ + 1]

\* variant: only an offline node comes back, an attacked node stays attacked
RebootNodesKeepAttack(prevNodes, index) ==
    [prevNodes EXCEPT ![index].status = CASE @ = "active" -> "offline"
                                          [] @ = "offline" -> "active"
                                          [] OTHER -> @,
                      ![index].uptime = "0d 0h"]

\* the timer callback of handleNodeAction
RebootNodes(prevNodes, index) ==
    [prevNodes EXCEPT ![index].status = IF @ = "active" THEN "offline" ELSE "active",
                      ![index].uptime = "0d 0h"]

----------------------------------------------------------------------------
Event(kind) == [kind |-> kind, dup |-> FALSE, full |-> FALSE, active |-> FALSE,
                moved |-> FALSE, batch |-> << >>]

\* the state of a freshly mounted Dashboard
Mounted ==
    /\ liveThreats = << >>
    /\ isBackendConnected = FALSE
    /\ toast = Null
    /\ toastTimers = {}
    /\ attackAlert = Null
    /\ isAlertAcknowledged = FALSE
    /\ selectedThreat = Null
    /\ keyRender = NoRender
    /\ searchQuery = ""
    /\ filterType = "all"
    /\ rebootingIndex = NoIndex
    /\ nodes = InitialNodes
    /\ seedState = "pending"
    /\ rebootTimers = [i \in 0..2 |-> 0]
    /\ blockInFlight = 0
    /\ lastEvent = Event("mount")
    /\ delivered = 0
    /\ accepted = 0
    /\ lastAccepted = Null
    /\ maxId = 0
    /\ reboots = 0
    /\ rebootSnap = [requests |-> InitialNodes[0].requests, accepted |-> 0]
    /\ blocks = 0
    /\ blockSnap = Null

----------------------------------------------------------------------------
(* The AuthProvider with the inactivity timeout, AnalyticsDashboard.tsx.    *)
(* authProvider holds token, user and isLoading (state), inactivityTimerRef *)
(* (the ref: NoTimer or the id setTimeout returned), timers (the ids of the *)
(* timeouts pending), timerIds (the number of ids setTimeout has handed     *)
(* out), listening (the activity listeners are on the document), stored     *)
(* (sessionStorage holds authToken and authUser) and verifying (the number  *)
(* of verifyToken requests in flight).  A handler, the render it causes and *)
(* the effects of that render are one step.                                 *)

NoTimer == 0            \* inactivityTimerRef.current === null

AuthToken == [jwt |-> "eyJ"]
AuthUser == [id |-> 1, username |-> "admin", email |-> "admin@example.org"]

\* isAuthenticated: !!token && !!user
authenticated(p) == p.token # Null /\ p.user # Null

\* clearTimeout(id): nothing happens for an id that is not pending
clearTimeout(p, id) == [p EXCEPT !.timers = @ \ {id}]

\* variant: the ref is reset and the timeout left pending
logoutKeepsTimer(p) ==
    [p EXCEPT !.token = Null, !.user = Null, !.stored = FALSE,
              !.inactivityTimerRef = NoTimer]

\* logout
logout(p) ==
    LET q == [p EXCEPT !.token = Null, !.user = Null, !.stored = FALSE]
    IN  IF q.inactivityTimerRef # NoTimer
        THEN [clearTimeout(q, q.inactivityTimerRef) EXCEPT !.inactivityTimerRef = NoTimer]
        ELSE q

\* variant: the timeout the ref holds is not cleared
resetInactivityTimerNoClear(p) ==
    IF authenticated(p)
    THEN [p EXCEPT !.timerIds = @ + 1,
                   !.inactivityTimerRef = p.timerIds + 1,
                   !.timers = @ \cup {p.timerIds + 1}]
    ELSE p

\* resetInactivityTimer of the render whose token and user are p's
resetInactivityTimer(p) ==
    LET q == IF p.inactivityTimerRef # NoTimer
             THEN clearTimeout(p, p.inactivityTimerRef)
             ELSE p
    IN  IF authenticated(q)
        THEN [q EXCEPT !.timerIds = @ + 1,
                       !.inactivityTimerRef = q.timerIds + 1,
                       !.timers = @ \cup {q.timerIds + 1}]
        ELSE q

\* the cleanup the activity-listener effect returned, if its last run got
\* past the early return: the listeners are removed and the timeout the ref
\* holds is cleared; the ref keeps the id
activityCleanup(p) ==
    IF p.listening
    THEN LET q == [p EXCEPT !.listening = FALSE]
         IN  IF q.inactivityTimerRef # NoTimer
             THEN clearTimeout(q, q.inactivityTimerRef)
             ELSE q
    ELSE p

\* the activity-listener effect after a render in which token, user or
\* resetInactivityTimer is another value: cleanup of the last run, then the
\* body
activityEffect(p) ==
    LET q == activityCleanup(p)
    IN  IF ~authenticated(q) THEN q
        ELSE resetInactivityTimer([q EXCEPT !.listening = TRUE])

\* the AuthProvider after its first render and its two mount effects: with
\* a stored session token and user are set and verifyToken is under way
ProviderInit(stored) ==
    LET p == [token |-> Null, user |-> Null, isLoading |-> TRUE,
              inactivityTimerRef |-> NoTimer, timers |-> {}, timerIds |-> 0,
              listening |-> FALSE, stored |-> stored, verifying |-> 0]
    IN  IF stored
        THEN activityEffect([p EXCEPT !.token = AuthToken, !.user = AuthUser,
                                      !.verifying = 1])
        ELSE [p EXCEPT !.isLoading = FALSE]

\* the session restored from sessionStorage, the Dashboard mounted and
\* subscribed; or no saved session, the login page shown.  Each of the
\* two providers starts from what sessionStorage holds; they share no state.
Init ==
    /\ Mounted
    /\ \/ /\ isAuthenticated = TRUE /\ eventSource = "live" /\ connections = 1
          /\ authProvider = ProviderInit(TRUE)
       \/ /\ isAuthenticated = FALSE /\ eventSource = "none" /\ connections = 0
          /\ authProvider = ProviderInit(FALSE)
    /\ staleTimers = 0

----------------------------------------------------------------------------
(* Seed: fetchThreats(20).then(...) *)

\* variants: the batch is put behind the entries already stored; the
\* setters are called for an empty batch too
applySeedBehind(threats) ==
    IF Len(threats) > 0
    THEN /\ liveThreats' = liveThreats \o threats
         /\ isBackendConnected' = TRUE
    ELSE UNCHANGED feedVars

applySeedAlways(threats) ==
    /\ liveThreats' = threats
    /\ isBackendConnected' = TRUE

\* variant: an empty batch marks the backend as not connected
applySeedDisconnects(threats) ==
    IF Len(threats) > 0
    THEN /\ liveThreats' = threats
         /\ isBackendConnected' = TRUE
    ELSE /\ isBackendConnected' = FALSE
         /\ UNCHANGED liveThreats

\* the body of the then callback
applySeed(threats) ==
    IF Len(threats) > 0
    THEN /\ liveThreats' = threats
         /\ isBackendConnected' = TRUE
    ELSE UNCHANGED feedVars

SeedResolve(lens) ==
    /\ isAuthenticated
    /\ seedState = "pending"
    /\ \E ok \in BOOLEAN, n \in lens :
         LET threats == fetchThreats(ok, n) IN
         /\ applySeed(threats)
         /\ maxId' = Max(maxId, IF ok THEN n ELSE 0)
         /\ lastEvent' = [Event("seed") EXCEPT !.batch = threats]
    /\ seedState' = "settled"
    /\ UNCHANGED <<quietVars, toastVars, alertVars, selectedThreat, nodeVars, blockInFlight,
                   delivered, accepted, lastAccepted, nodeHist, blocks>>

(* Stream arrival: the onThreat callback of subscribeToLiveFeed *)

\* variants: an active alert is kept and the arrival ignored; the
\* acknowledged flag is left as it was
raiseAlertKeepOlder(newThreat) ==
    IF attackAlert = Null
    THEN attackAlert' = newThreat /\ isAlertAcknowledged' = FALSE
    ELSE UNCHANGED alertVars

raiseAlertKeepAcknowledged(newThreat) ==
    /\ attackAlert' = newThreat
    /\ UNCHANGED isAlertAcknowledged

\* setAttackAlert(newThreat); setIsAlertAcknowledged(false)
raiseAlert(newThreat) ==
    /\ attackAlert' = newThreat
    /\ isAlertAcknowledged' = FALSE

onThreat(newThreat) ==
    /\ liveThreats' = MergeThreat(liveThreats, newThreat)
    /\ isBackendConnected' = TRUE
    /\ raiseAlert(newThreat)
    /\ nodes' = AttackNodes(nodes)
    /\ delivered' = delivered + 1
    /\ accepted' = IF Exists(liveThreats, newThreat) THEN accepted ELSE accepted + 1
    /\ lastAccepted' = IF Exists(liveThreats, newThreat) THEN lastAccepted ELSE newThreat
    /\ maxId' = Max(maxId, newThreat.id)
    /\ lastEvent' = [kind |-> "arrival",
                     dup |-> Exists(liveThreats, newThreat),
                     full |-> Len(liveThreats) = StoreBound,
                     active |-> attackAlert # Null,
                     moved |-> FALSE,
                     batch |-> << >>]
    /\ UNCHANGED <<quietVars, toastVars, selectedThreat, rebootingIndex, rebootTimers,
                   seedState, blockInFlight, nodeHist, blocks>>

\* eventSource.onmessage: any record 1..ids, any number of times.
\* getConfidence draws afresh for every message.  No handler reads the
\* value, so the draw for a record that is not in the store is fixed; the
\* draw for a stored record is either value, which makes a repeated arrival
\* an object that may differ from the stored one.
confidenceDraws(i) ==
    IF \E k \in 1..Len(liveThreats) : liveThreats[k].id = i
    THEN Confidences
    ELSE {85}

StreamMessage(ids) ==
    /\ eventSource = "live"
    /\ \E i \in 1..ids : \E c \in confidenceDraws(i) : onThreat(Threat(i, c))

\* variant: onError marks the backend as not connected
StreamErrorDisconnects ==
    /\ eventSource = "live"
    /\ isBackendConnected' = FALSE
    /\ lastEvent' = Event("streamError")
    /\ UNCHANGED <<quietVars, liveThreats, toastVars, alertVars, selectedThreat, nodeVars,
                   seedState, blockInFlight, histVars>>

\* eventSource.onerror: the error is logged and handed to onError, which logs
StreamError ==
    /\ eventSource = "live"
    /\ lastEvent' = Event("streamError")
    /\ UNCHANGED <<quietVars, feedVars, toastVars, alertVars, selectedThreat, nodeVars,
                   seedState, blockInFlight, histVars>>

\* eventSource.onmessage with data that makes the try block throw: text
\* that is not JSON (JSON.parse throws) or the JSON null (transformToThreat
\* throws reading log.city); the catch logs and returns
StreamMalformed ==
    /\ eventSource = "live"
    /\ \E data \in {"not json", "null"} : lastEvent' = Event("messageDropped")
    /\ UNCHANGED <<quietVars, feedVars, toastVars, alertVars, selectedThreat, nodeVars,
                   seedState, blockInFlight, histVars>>

\* eventSource.onmessage with data that is JSON but no attack-log record:
\* nothing throws, and the object goes through transformToThreat to onThreat
StreamNonRecord ==
    /\ eventSource = "live"
    /\ onThreat(transformToThreat(NonRecordLog, 85))

\* eventSource.onmessage with one of the records GeoLog
StreamGeo(ids) ==
    /\ eventSource = "live"
    /\ \E i \in 1..ids : onThreat(transformToThreat(GeoLog(i), 85))

\* the attack types of the records delivered where the confidence matters:
\* a mapped type, 'Normal', a type getSeverity does not know, and none
ConfidenceTypes == {"SQL Injection", "Normal", "Zero Day", ""}

\* eventSource.onmessage with a record of any of these types; transformToThreat
\* calls getConfidence(attackType), which calls Math.random()
StreamTyped(ids) ==
    /\ eventSource = "live"
    /\ \E i \in 1..ids, type \in ConfidenceTypes, k \in Randoms :
         LET log == [BackendLog(i) EXCEPT !.attack_type = type]
             attackType == IF Truthy(type) THEN type ELSE "Unknown"
         IN  onThreat(transformToThreat(log, getConfidence(attackType, k)))

\* variant: every call releases a connection
unsubscribeReleasesAgain ==
    /\ eventSource' = "closed"
    /\ connections' = connections - 1

\* the function subscribeToLiveFeed returns: eventSource.close(), which
\* does nothing to a source that is closed already
unsubscribe ==
    /\ eventSource' = "closed"
    /\ connections' = IF eventSource = "live" THEN connections - 1 ELSE connections

\* a call of the returned function by its holder
Unsubscribe ==
    /\ eventSource # "none"
    /\ unsubscribe
    /\ lastEvent' = [Event("unsubscribe") EXCEPT !.dup = eventSource = "closed"]
    /\ UNCHANGED <<isAuthenticated, staleTimers, authProvider, keyRender, blockSnap, viewVars, feedVars, toastVars,
                   alertVars, selectedThreat, nodeVars, seedState, blockInFlight,
                   histVars>>

----------------------------------------------------------------------------
\* the keydown effect, App.tsx:210-219, runs again when selectedThreat is
\* another object: the new listener holds the navigateThreat, and with it the
\* allThreats, of that render.  With no selection the listener returns
\* before it reads the list.  A threat equal to the selected one is the same
\* object (no new listener) or a repeated arrival's new object.
rebind(threat) ==
    IF threat = Null THEN { NoRender }
    ELSE IF threat = selectedThreat THEN { keyRender, ThisRender }
    ELSE { ThisRender }

----------------------------------------------------------------------------
(* Alert panel: rendered only while attackAlert is set *)

\* App.tsx:268  the flashing border
Flashing == attackAlert # Null /\ ~isAlertAcknowledged

\* App.tsx:807  the alert panel
PanelVisible == attackAlert # Null

\* the X button of the panel, App.tsx:832
Dismiss ==
    /\ isAuthenticated
    /\ attackAlert # Null
    /\ attackAlert' = Null
    /\ lastEvent' = [Event("dismiss") EXCEPT !.active = TRUE]
    /\ UNCHANGED <<quietVars, feedVars, toastVars, isAlertAcknowledged, selectedThreat,
                   nodeVars, seedState, blockInFlight, histVars>>

\* the Acknowledge button, rendered only while !isAlertAcknowledged, App.tsx:867
Acknowledge ==
    /\ isAuthenticated
    /\ attackAlert # Null
    /\ ~isAlertAcknowledged
    /\ isAlertAcknowledged' = TRUE
    /\ lastEvent' = [Event("acknowledge") EXCEPT !.active = TRUE]
    /\ UNCHANGED <<quietVars, feedVars, toastVars, attackAlert, selectedThreat,
                   nodeVars, seedState, blockInFlight, histVars>>

\* variant: the panel stays open after the detail view is opened
ViewDetailsKeepAlert ==
    /\ isAuthenticated
    /\ attackAlert # Null
    /\ selectedThreat' = attackAlert
    /\ keyRender' \in rebind(attackAlert)
    /\ lastEvent' = [Event("viewDetails") EXCEPT !.active = TRUE]
    /\ UNCHANGED <<sessionVars, blockSnap, viewVars, feedVars, toastVars, alertVars,
                   nodeVars, seedState, blockInFlight, histVars>>

\* the View Details button, App.tsx:877
ViewDetails ==
    /\ isAuthenticated
    /\ attackAlert # Null
    /\ selectedThreat' = attackAlert
    /\ keyRender' \in rebind(attackAlert)
    /\ attackAlert' = Null
    /\ lastEvent' = [Event("viewDetails") EXCEPT !.active = TRUE]
    /\ UNCHANGED <<sessionVars, blockSnap, viewVars, feedVars, toastVars, isAlertAcknowledged,
                   nodeVars, seedState, blockInFlight, histVars>>

----------------------------------------------------------------------------
(* Detail view *)

\* a card of the grid, App.tsx:505; the open modal covers the grid
SelectThreat ==
    /\ isAuthenticated
    /\ selectedThreat = Null
    /\ \E k \in 1..Len(gridThreats) :
         selectedThreat' = gridThreats[k]
    /\ keyRender' = ThisRender
    /\ lastEvent' = Event("select")
    /\ UNCHANGED <<sessionVars, blockSnap, viewVars, feedVars, toastVars, alertVars, nodeVars, seedState,
                   blockInFlight, histVars>>

\* backdrop, close button, App.tsx:636,648
CloseDetail ==
    /\ isAuthenticated
    /\ selectedThreat # Null
    /\ selectedThreat' = Null
    /\ keyRender' = NoRender
    /\ lastEvent' = Event("close")
    /\ UNCHANGED <<sessionVars, blockSnap, viewVars, feedVars, toastVars, alertVars, nodeVars, seedState,
                   blockInFlight, histVars>>

----------------------------------------------------------------------------
(* Search and filter controls *)

\* what the user types into the search box
Queries == {"", "sql", "SQL", "paris", "203.0", "Detected", "zzz"}

\* the search input and its clear button, App.tsx:461,466
SetSearchQuery ==
    /\ isAuthenticated
    /\ \E q \in Queries \ {searchQuery} : searchQuery' = q
    /\ lastEvent' = Event("search")
    /\ UNCHANGED <<sessionVars, keyRender, blockSnap, filterType, feedVars, toastVars, alertVars, selectedThreat,
                   nodeVars, seedState, blockInFlight, histVars>>

\* the filter dropdown, App.tsx:479: one of the options offered
SetFilterType ==
    /\ isAuthenticated
    /\ \E type \in attackTypes \ {filterType} : filterType' = type
    /\ lastEvent' = Event("filter")
    /\ UNCHANGED <<sessionVars, keyRender, blockSnap, searchQuery, feedVars, toastVars, alertVars, selectedThreat,
                   nodeVars, seedState, blockInFlight, histVars>>

\* the Clear filters link, App.tsx:494
ClearFilters ==
    /\ isAuthenticated
    /\ searchQuery # "" \/ filterType # "all"
    /\ searchQuery' = ""
    /\ filterType' = "all"
    /\ lastEvent' = Event("clearFilters")
    /\ UNCHANGED <<sessionVars, keyRender, blockSnap, feedVars, toastVars, alertVars, selectedThreat,
                   nodeVars, seedState, blockInFlight, histVars>>

----------------------------------------------------------------------------
(* Block IP: handleBlockIP awaits blockIP(ip) *)

\* the Block IP Address button of the modal: the request is sent
BlockIPRequest ==
    /\ isAuthenticated
    /\ selectedThreat # Null
    /\ blocks' = blocks + 1
    /\ blockSnap' = selectedThreat
    /\ blockInFlight' = blockInFlight + 1
    /\ lastEvent' = Event("blockRequest")
    /\ UNCHANGED <<sessionVars, keyRender, viewVars, feedVars, toastVars, alertVars, selectedThreat, nodeVars,
                   seedState, feedHist, nodeHist>>

\* blockIP: the server's JSON, or the generic failure on a network error or a
\* non-OK response
blockIP(ok, body) ==
    IF ok THEN body ELSE [success |-> FALSE, message |-> "Failed to block IP address"]

BlockBodies == { [success |-> TRUE,  message |-> "blocked"],
                 [success |-> FALSE, message |-> "refused"] }

\* variant: the effect has no cleanup, the timer of the toast that is
\* replaced stays pending
toastEffectNoCleanup(pending, next) ==
    pending \cup (IF next = Null THEN {} ELSE {next.seq})

\* the toast effect, App.tsx:189-194, in the commit that makes next the
\* toast: the cleanup of its last run clears the timer armed for the toast
\* shown until now, then a timer is armed for next unless next is null.
\* pending are the timers that have not fired yet.
toastEffect(pending, next) ==
    (pending \ (IF toast = Null THEN {} ELSE {toast.seq}))
        \cup (IF next = Null THEN {} ELSE {next.seq})

\* setToast(next) and the run of the effect that depends on toast
setToast(next) ==
    /\ toast' = next
    /\ toastTimers' = toastEffect(toastTimers, next)

\* the object literal of a setToast call: every call makes a new object,
\* the seq of which is the number of the response it reports
newToast(message, type) ==
    [message |-> message, type |-> type, seq |-> blocks - blockInFlight + 1]

\* variants: a failure closes the detail view as well; a success closes
\* the detail view only if it still shows the threat the request was for
handleBlockIPClosesOnFailure(result) ==
    /\ setToast(newToast(result.message,
                         IF result.success THEN "success" ELSE "error"))
    /\ selectedThreat' = Null
    /\ keyRender' = NoRender

handleBlockIPKeepsOther(result) ==
    IF result.success
    THEN /\ setToast(newToast(result.message, "success"))
         /\ selectedThreat' = IF selectedThreat = blockSnap THEN Null ELSE selectedThreat
         /\ keyRender' = IF selectedThreat = blockSnap THEN NoRender ELSE keyRender
    ELSE /\ setToast(newToast(result.message, "error"))
         /\ UNCHANGED <<selectedThreat, keyRender>>

\* handleBlockIP after the await
handleBlockIP(result) ==
    IF result.success
    THEN /\ setToast(newToast(result.message, "success"))
         /\ selectedThreat' = Null
         /\ keyRender' = NoRender
    ELSE /\ setToast(newToast(result.message, "error"))
         /\ UNCHANGED <<selectedThreat, keyRender>>

\* the response, or the failure, of one request in flight
BlockIPResponse ==
    /\ isAuthenticated
    /\ blockInFlight > 0
    /\ blockInFlight' = blockInFlight - 1
    /\ \E ok \in BOOLEAN, body \in BlockBodies :
         LET result == blockIP(ok, body) IN
         /\ handleBlockIP(result)
         /\ lastEvent' = [Event(IF result.success THEN "blockSuccess" ELSE "blockFailure")
                             EXCEPT !.moved = selectedThreat # Null
                                              /\ selectedThreat # blockSnap,
                                    !.active = toast # Null]
    /\ blockSnap' = IF blockInFlight = 1 THEN Null ELSE blockSnap
    /\ UNCHANGED <<sessionVars, viewVars, feedVars, alertVars, nodeVars, seedState, histVars>>

\* variants: only a success toast gets a timer; the timer also closes the
\* alert panel
ToastExpireSuccessOnly ==
    /\ isAuthenticated
    /\ toast # Null
    /\ toast.type = "success"
    /\ \E s \in toastTimers :
         /\ toast' = Null
         /\ toastTimers' = toastEffect(toastTimers \ {s}, Null)
         /\ lastEvent' = [Event("toastExpire") EXCEPT !.batch = <<s>>]
    /\ UNCHANGED <<quietVars, feedVars, alertVars, selectedThreat, nodeVars, seedState,
                   blockInFlight, histVars>>

ToastExpireClosesAlert ==
    /\ isAuthenticated
    /\ \E s \in toastTimers :
         /\ toast' = Null
         /\ toastTimers' = toastEffect(toastTimers \ {s}, Null)
         /\ lastEvent' = [Event("toastExpire") EXCEPT !.batch = <<s>>]
    /\ attackAlert' = Null
    /\ UNCHANGED <<quietVars, feedVars, isAlertAcknowledged, selectedThreat, nodeVars,
                   seedState, blockInFlight, histVars>>

\* the 3000 ms timer of the toast effect, App.tsx:191: the pending timer s
\* fires, its callback calls setToast(null), the effect runs for null
ToastExpire ==
    /\ isAuthenticated
    /\ \E s \in toastTimers :
         /\ toast' = Null
         /\ toastTimers' = toastEffect(toastTimers \ {s}, Null)
         /\ lastEvent' = [Event("toastExpire") EXCEPT !.batch = <<s>>]
    /\ UNCHANGED <<quietVars, feedVars, alertVars, selectedThreat, nodeVars, seedState,
                   blockInFlight, histVars>>

----------------------------------------------------------------------------
(* Node panel: handleNodeAction *)

\* the REBOOT NODE button of node index, disabled while rebootingIndex === index
RebootRequest(index) ==
    /\ isAuthenticated
    /\ rebootingIndex # index
    /\ reboots' = reboots + 1
    /\ rebootSnap' = IF index = 0
                     THEN [requests |-> nodes[0].requests, accepted |-> accepted]
                     ELSE rebootSnap
    /\ rebootingIndex' = index
    /\ rebootTimers' = [rebootTimers EXCEPT ![index] = @ + 1]
    /\ lastEvent' = Event("rebootRequest")
    /\ UNCHANGED <<quietVars, feedVars, toastVars, alertVars, selectedThreat, nodes,
                   seedState, blockInFlight, feedHist, blocks>>

\* the 2500 ms timer callback
RebootComplete(index) ==
    /\ isAuthenticated
    /\ rebootTimers[index] > 0
    /\ rebootTimers' = [rebootTimers EXCEPT ![index] = @ - 1]
    /\ rebootingIndex' = NoIndex
    /\ nodes' = RebootNodes(nodes, index)
    /\ lastEvent' = Event("rebootComplete")
    /\ UNCHANGED <<quietVars, feedVars, toastVars, alertVars, selectedThreat,
                   seedState, blockInFlight, histVars>>

----------------------------------------------------------------------------
(* Keyboard and modal navigation *)

\* allThreats.findIndex(a => a.id === id): the first index, from 0, or -1
findIndex(list, id) ==
    IF \E k \in 1..Len(list) : list[k].id = id
    THEN (CHOOSE k \in 1..Len(list) :
              /\ list[k].id = id
              /\ \A j \in 1..(k - 1) : list[j].id # id) - 1
    ELSE -1

\* navigateThreat as defined in the render whose displayed list is list
navigateThreat(list, direction) ==
    LET currentIndex == findIndex(list, selectedThreat.id)
        nextIndex == IF direction = "next"
                     THEN (currentIndex + 1) % Len(list)
                     ELSE (currentIndex - 1 + Len(list)) % Len(list)
    IN  list[nextIndex + 1]

\* the arrow buttons of the modal, App.tsx:653,661
Navigate(direction) ==
    /\ isAuthenticated
    /\ selectedThreat # Null
    /\ selectedThreat' = navigateThreat(allThreats, direction)
    /\ keyRender' \in rebind(navigateThreat(allThreats, direction))
    /\ lastEvent' = Event(IF direction = "next" THEN "navigateNext" ELSE "navigatePrev")
    /\ UNCHANGED <<sessionVars, blockSnap, viewVars, feedVars, toastVars, alertVars,
                   nodeVars, seedState, blockInFlight, histVars>>

Keys == {"ArrowLeft", "ArrowRight", "Escape", "Enter"}

\* variant: Escape closes the alert panel too
handleKeyDownClosesAlert(key) ==
    IF selectedThreat = Null
    THEN UNCHANGED <<selectedThreat, keyRender, attackAlert>>
    ELSE CASE key = "ArrowLeft" ->
                /\ selectedThreat' = navigateThreat(keyThreats, "prev")
                /\ keyRender' \in rebind(navigateThreat(keyThreats, "prev"))
                /\ UNCHANGED attackAlert
           [] key = "ArrowRight" ->
                /\ selectedThreat' = navigateThreat(keyThreats, "next")
                /\ keyRender' \in rebind(navigateThreat(keyThreats, "next"))
                /\ UNCHANGED attackAlert
           [] key = "Escape" ->
                /\ selectedThreat' = Null
                /\ keyRender' = NoRender
                /\ attackAlert' = Null
           [] OTHER -> UNCHANGED <<selectedThreat, keyRender, attackAlert>>

\* handleKeyDown: the listener of the latest render in which selectedThreat
\* changed, so its selectedThreat is the current one and its list keyThreats
handleKeyDown(key) ==
    IF selectedThreat = Null
    THEN UNCHANGED <<selectedThreat, keyRender, attackAlert>>
    ELSE CASE key = "ArrowLeft" ->
                /\ selectedThreat' = navigateThreat(keyThreats, "prev")
                /\ keyRender' \in rebind(navigateThreat(keyThreats, "prev"))
                /\ UNCHANGED attackAlert
           [] key = "ArrowRight" ->
                /\ selectedThreat' = navigateThreat(keyThreats, "next")
                /\ keyRender' \in rebind(navigateThreat(keyThreats, "next"))
                /\ UNCHANGED attackAlert
           [] key = "Escape" ->
                /\ selectedThreat' = Null
                /\ keyRender' = NoRender
                /\ UNCHANGED attackAlert
           [] OTHER -> UNCHANGED <<selectedThreat, keyRender, attackAlert>>

\* a keydown event on the window
KeyDown ==
    /\ isAuthenticated
    /\ \E key \in Keys :
         /\ handleKeyDown(key)
         /\ lastEvent' = [Event("key" \o key) EXCEPT !.active = selectedThreat # Null]
    /\ UNCHANGED <<sessionVars, blockSnap, viewVars, feedVars, toastVars,
                   isAlertAcknowledged, nodeVars, seedState, blockInFlight, histVars>>

----------------------------------------------------------------------------
(* Session: AppContent renders the Dashboard while isAuthenticated *)

\* login with the right credentials: the Dashboard mounts in the state of
\* its useState initialisers, starts the seed fetch and subscribes
Login ==
    /\ ~isAuthenticated
    /\ isAuthenticated' = TRUE
    /\ eventSource' = "live"
    /\ connections' = connections + 1
    /\ lastEvent' = Event("mount")
    /\ UNCHANGED <<staleTimers, authProvider, keyRender, blockSnap, viewVars, feedVars,
                   toastVars, alertVars, selectedThreat, nodeVars, seedState, blockInFlight,
                   histVars>>

\* the state of the Dashboard is dropped and the cleanup of the toast effect
\* runs; callbacks still pending (seed, blockIP) set state of the unmounted
\* component, to no effect.  handleNodeAction keeps no handle of its timers
\* and nothing clears them: they stay pending.
discardDashboard ==
    /\ liveThreats' = << >>
    /\ isBackendConnected' = FALSE
    /\ setToast(Null)
    /\ attackAlert' = Null
    /\ isAlertAcknowledged' = FALSE
    /\ selectedThreat' = Null
    /\ keyRender' = NoRender
    /\ searchQuery' = ""
    /\ filterType' = "all"
    /\ rebootingIndex' = NoIndex
    /\ nodes' = InitialNodes
    /\ seedState' = "pending"
    /\ rebootTimers' = [i \in 0..2 |-> 0]
    /\ blockInFlight' = 0
    /\ blockSnap' = Null
    /\ staleTimers' = staleTimers + rebootTimers[0] + rebootTimers[1] + rebootTimers[2]

\* variant: the Dashboard unmounts without its effect cleanup
LogoutKeepsStream ==
    /\ isAuthenticated
    /\ isAuthenticated' = FALSE
    /\ eventSource' = "none"
    /\ UNCHANGED connections
    /\ discardDashboard
    /\ lastEvent' = Event("logout")
    /\ UNCHANGED <<authProvider, histVars>>

\* logout, App.tsx:318: isAuthenticated becomes false, AppContent unmounts
\* the Dashboard, the cleanup of the subscribe effect calls unsubscribe
Logout ==
    /\ isAuthenticated
    /\ isAuthenticated' = FALSE
    /\ unsubscribe
    /\ discardDashboard
    /\ lastEvent' = Event("logout")
    /\ UNCHANGED <<authProvider, histVars>>

\* the 2500 ms timer callback of a Dashboard that has been unmounted since:
\* it runs, its setters are those of the unmounted component and the node
\* objects it writes are the ones that component held
StaleRebootComplete ==
    /\ staleTimers > 0
    /\ staleTimers' = staleTimers - 1
    /\ lastEvent' = Event("staleRebootComplete")
    /\ UNCHANGED <<isAuthenticated, eventSource, connections, authProvider, keyRender,
                   blockSnap, viewVars, feedVars, toastVars, alertVars, selectedThreat,
                   nodeVars, seedState, blockInFlight, histVars>>

----------------------------------------------------------------------------
(* The handlers of the AuthProvider *)

\* everything but the AuthProvider
dashboardVars == <<isAuthenticated, eventSource, connections, staleTimers, keyRender,
                   blockSnap, viewVars, feedVars, toastVars, alertVars, selectedThreat,
                   nodeVars, seedState, blockInFlight, histVars>>

ProviderEvent(kind) ==
    [Event(kind) EXCEPT !.active = authProvider.timers # {},
                        !.full = authenticated(authProvider)]

\* login and signup: a response with success sets token and user and stores
\* them; any other response and a network error change nothing
ProviderLogin ==
    /\ \E success \in BOOLEAN :
         /\ authProvider' =
               IF success
               THEN activityEffect([authProvider EXCEPT !.token = AuthToken,
                                                        !.user = AuthUser,
                                                        !.stored = TRUE])
               ELSE authProvider
         /\ lastEvent' = ProviderEvent(IF success THEN "providerLogin"
                                                   ELSE "providerLoginFailed")
    /\ UNCHANGED dashboardVars

\* logout called by a consumer of the context
ProviderLogout ==
    /\ authProvider' = activityEffect(logout(authProvider))
    /\ lastEvent' = ProviderEvent("providerLogout")
    /\ UNCHANGED dashboardVars

\* verifyToken after the await: an OK response sets the user it carries
\* (a new object, or undefined), any other response logs out, a network
\* error is logged; isLoading is cleared in every case
VerifyTokenSettles ==
    /\ authProvider.verifying > 0
    /\ \E outcome \in {"user", "undefined", "rejected", "error"} :
         LET p == [authProvider EXCEPT !.verifying = @ - 1, !.isLoading = FALSE]
         IN  /\ authProvider' =
                   CASE outcome = "user" -> activityEffect([p EXCEPT !.user = AuthUser])
                     [] outcome = "undefined" -> activityEffect([p EXCEPT !.user = Null])
                     [] outcome = "rejected" -> activityEffect(logout(p))
                     [] OTHER -> p
             /\ lastEvent' = ProviderEvent("verify" \o outcome)
    /\ UNCHANGED dashboardVars

\* handleActivity: one of the six activity events on the document
Activity ==
    /\ authProvider.listening
    /\ authProvider' = resetInactivityTimer(authProvider)
    /\ lastEvent' = ProviderEvent("activity")
    /\ UNCHANGED dashboardVars

\* resetInactivityTimer called by a consumer of the context
ResetInactivityTimer ==
    /\ authProvider' = resetInactivityTimer(authProvider)
    /\ lastEvent' = ProviderEvent("resetInactivityTimer")
    /\ UNCHANGED dashboardVars

\* the timeout id falls due after INACTIVITY_TIMEOUT: the callback alerts
\* and calls logout
InactivityExpire ==
    /\ \E id \in authProvider.timers :
         authProvider' = activityEffect(logout([authProvider EXCEPT !.timers = @ \ {id}]))
    /\ lastEvent' = ProviderEvent("inactivityExpire")
    /\ UNCHANGED dashboardVars

----------------------------------------------------------------------------
\* the inputs that grow the state are counted against one budget
Budget == delivered + reboots + blocks < MaxInputs

Next ==
    \/ SeedResolve(0..MaxSeedLen)
    \/ Budget /\ StreamMessage(MaxId)
    \/ StreamError
    \/ Dismiss
    \/ Acknowledge
    \/ ViewDetails
    \/ SelectThreat
    \/ CloseDetail
    \/ Budget /\ BlockIPRequest
    \/ BlockIPResponse
    \/ ToastExpire
    \/ Budget /\ \E index \in 0..2 : RebootRequest(index)
    \/ \E index \in 0..2 : RebootComplete(index)

Spec == Init /\ [][Next]_vars

\* the feed, the alert panel and the detail view alone, with longer runs
NextFeed ==
    \/ SeedResolve(0..FeedMaxSeedLen)
    \/ delivered < FeedMaxArrivals /\ StreamMessage(FeedMaxId)
    \/ StreamError
    \/ Dismiss
    \/ Acknowledge
    \/ ViewDetails
    \/ SelectThreat
    \/ CloseDetail

SpecFeed == Init /\ [][NextFeed]_vars

----------------------------------------------------------------------------
(* Long runs of the feed: the backend numbers its records 1, 2, 3, ...; the *)
(* stream delivers the next record, or repeats the newest or the oldest     *)
(* stored one; the seed is any batch the limit of 20 allows.                *)

StreamNextRecord ==
    /\ eventSource = "live"
    /\ maxId < LongMaxId
    /\ onThreat(Threat(maxId + 1, 85))

StreamRepeat ==
    /\ eventSource = "live"
    /\ delivered - accepted < LongMaxDups
    /\ Len(liveThreats) > 0
    /\ \E k \in {1, Len(liveThreats)} : onThreat(Threat(liveThreats[k].id, 90))

NextLong ==
    \/ SeedResolve(0..SeedLimit)
    \/ StreamNextRecord
    \/ StreamRepeat

SpecLong == Init /\ [][NextLong]_vars

----------------------------------------------------------------------------
(* The node panel with the stream: reboots of the three nodes interleaved   *)
(* with arrivals.                                                            *)

NextNodes ==
    \/ delivered < NodesMaxArrivals /\ StreamMessage(NodesMaxId)
    \/ reboots < NodesMaxReboots /\ \E index \in 0..2 : RebootRequest(index)
    \/ \E index \in 0..2 : RebootComplete(index)

SpecNodes == Init /\ [][NextNodes]_vars

----------------------------------------------------------------------------
(* The search and filter controls over a growing live store *)

NextFilter ==
    \/ maxId < FilterMaxId /\ StreamNextRecord
    \/ SetSearchQuery
    \/ SetFilterType
    \/ ClearFilters

SpecFilter == Init /\ [][NextFilter]_vars

----------------------------------------------------------------------------
(* The detail view: cards, modal buttons and keys, with arrivals that      *)
(* change the displayed list while the modal is open.                       *)

NextDetail ==
    \/ delivered < DetailMaxArrivals /\ StreamMessage(DetailMaxId)
    \/ ViewDetails
    \/ SelectThreat
    \/ CloseDetail
    \/ \E direction \in {"next", "prev"} : Navigate(direction)
    \/ KeyDown

SpecDetail == Init /\ [][NextDetail]_vars

----------------------------------------------------------------------------
(* The subscription of api.ts: every kind of event the EventSource can      *)
(* raise, and calls of the returned function by its holder.                 *)

NextStream ==
    \/ SeedResolve(0..StreamMaxId)
    \/ delivered < StreamMaxArrivals /\ StreamMessage(StreamMaxId)
    \/ delivered < StreamMaxArrivals /\ StreamNonRecord
    \/ StreamMalformed
    \/ StreamError
    \/ Unsubscribe
    \/ Dismiss
    \/ Acknowledge

SpecStream == Init /\ [][NextStream]_vars

----------------------------------------------------------------------------
(* Sessions: login and logout around the feed *)

NextSession ==
    \/ Login
    \/ Logout
    \/ SeedResolve(0..SessionMaxId)
    \/ delivered < SessionMaxArrivals /\ StreamMessage(SessionMaxId)
    \/ StreamError

SpecSession == Init /\ [][NextSession]_vars

----------------------------------------------------------------------------
(* Block IP from the modal, with the toast timer.  The timer of the toast   *)
(* effect is armed whenever a toast is set and fires unless it is cleared,  *)
(* which is weak fairness of ToastExpire.                                   *)

NextBlock ==
    \/ delivered < BlockMaxArrivals /\ StreamMessage(BlockMaxId)
    \/ SelectThreat
    \/ CloseDetail
    \/ \E direction \in {"next", "prev"} : Navigate(direction)
    \/ blocks < BlockMaxRequests /\ BlockIPRequest
    \/ BlockIPResponse
    \/ ToastExpire

SpecBlock == Init /\ [][NextBlock]_vars /\ WF_vars(ToastExpire)

----------------------------------------------------------------------------
(* transformToThreat over records of every city and country combination *)

NextGeo ==
    \/ delivered < GeoMaxArrivals /\ StreamGeo(GeoMaxId)
    \/ Dismiss

SpecGeo == Init /\ [][NextGeo]_vars

----------------------------------------------------------------------------
(* getConfidence over records of every kind of attack type *)

NextConfidence ==
    \/ delivered < ConfMaxArrivals /\ StreamTyped(ConfMaxId)
    \/ Dismiss

SpecConfidence == Init /\ [][NextConfidence]_vars

----------------------------------------------------------------------------
(* Timers around the unmount: reboots and toasts pending when the user logs *)
(* out, and what fires afterwards.                                           *)

NextTeardown ==
    \/ Login
    \/ Logout
    \/ reboots < TeardownMaxReboots /\ \E index \in 0..2 : RebootRequest(index)
    \/ \E index \in 0..2 : RebootComplete(index)
    \/ StaleRebootComplete
    \/ SelectThreat
    \/ blocks < TeardownMaxBlocks /\ BlockIPRequest
    \/ BlockIPResponse
    \/ ToastExpire

SpecTeardown == Init /\ [][NextTeardown]_vars

----------------------------------------------------------------------------
(* The AuthProvider: logins, logouts, token verification, activity and the  *)
(* inactivity timeout.                                                       *)

TimersLeft == authProvider.timerIds < ProviderMaxTimers

NextProvider ==
    \/ TimersLeft /\ ProviderLogin
    \/ ProviderLogout
    \/ TimersLeft /\ VerifyTokenSettles
    \/ TimersLeft /\ Activity
    \/ TimersLeft /\ ResetInactivityTimer
    \/ InactivityExpire

SpecProvider == Init /\ [][NextProvider]_vars

----------------------------------------------------------------------------
(* Properties *)

Arrival(e)  == e.kind = "arrival"
Repeated(e) == e.kind = "arrival" /\ e.dup
Accepted(e) == e.kind = "arrival" /\ ~e.dup

\* C1: a stream arrival whose id is already in the store leaves the alert
\* reference and the acknowledged flag as they were.
C1_DuplicateKeepsAlert ==
    [][Repeated(lastEvent') => UNCHANGED alertVars]_vars

\* C2: no two stored threats have the same id.
C2_UniqueIds ==
    \A j, k \in 1..Len(liveThreats) :
        j # k => liveThreats[j].id # liveThreats[k].id

C2_Witness ==
    /\ seedState = "settled"
    /\ Repeated(lastEvent)
    /\ Len(liveThreats) >= 2

\* C3: the store never holds more than 50 threats, and an accepted arrival
\* into a full store drops exactly the last element.
C3_Bounded ==
    /\ [](Len(liveThreats) <= StoreBound)
    /\ [][(Accepted(lastEvent') /\ lastEvent'.full) =>
            liveThreats' = <<lastAccepted'>> \o SubSeq(liveThreats, 1, StoreBound - 1)]_vars

C3_Witness ==
    /\ Accepted(lastEvent)
    /\ lastEvent.full
    /\ seedState = "settled"
    /\ Len(liveThreats) = StoreBound

\* C4: a repeated id leaves the store as it was, element for element, and
\* merging the same arrival twice gives what merging it once gives.
C4_DuplicateKeepsStore ==
    /\ [](\A i \in 1..FeedMaxId, c \in Confidences :
            MergeThreat(MergeThreat(liveThreats, Threat(i, c)), Threat(i, c))
                = MergeThreat(liveThreats, Threat(i, c)))
    /\ [][Repeated(lastEvent') => liveThreats' = liveThreats]_vars

\* the repeated arrival is another object than the stored one
C4_Witness ==
    /\ Repeated(lastEvent)
    /\ attackAlert # Null
    /\ \E k \in 1..Len(liveThreats) :
         /\ liveThreats[k].id = attackAlert.id
         /\ liveThreats[k] # attackAlert
    /\ Len(liveThreats) >= 2

\* C5: once an arrival has been accepted, the first element of the store is
\* the most recently accepted arrival.
C5_HeadIsLastAccepted ==
    lastAccepted # Null =>
        /\ Len(liveThreats) > 0
        /\ liveThreats[1].id = lastAccepted.id

\* C6: node 0's requests counter is its initial value plus the number of
\* accepted arrivals.
C6_RequestsCountAccepted ==
    nodes[0].requests = InitialNodes[0].requests + accepted

\* C7: an arrival with a new id while an alert is active makes the new
\* threat the unacknowledged alert, and dismissing gives Idle, not an older
\* alert.
C7_NewestAlertWins ==
    /\ [][(Accepted(lastEvent') /\ attackAlert # Null) =>
            (attackAlert' = lastAccepted' /\ ~isAlertAcknowledged')]_vars
    /\ [][lastEvent'.kind = "dismiss" => attackAlert' = Null]_vars

C7_Witness ==
    /\ Accepted(lastEvent)
    /\ lastEvent.active
    /\ attackAlert = lastAccepted
    /\ ~isAlertAcknowledged

\* C8: dismiss and view-details both leave no alert; view-details selects
\* the alerted threat, dismiss leaves the selection alone.
C8_DismissAndViewDetails ==
    [][/\ lastEvent'.kind = "dismiss" =>
            /\ attackAlert # Null
            /\ attackAlert' = Null
            /\ selectedThreat' = selectedThreat
       /\ lastEvent'.kind = "viewDetails" =>
            /\ attackAlert # Null
            /\ attackAlert' = Null
            /\ selectedThreat' = attackAlert]_vars

\* view-details taken from Active-Acknowledged
C8_Witness ==
    /\ lastEvent.kind = "viewDetails"
    /\ isAlertAcknowledged
    /\ attackAlert = Null
    /\ selectedThreat # Null

\* C9: acknowledge is taken from Active-Unacknowledged only, keeps the alert
\* reference, stops the flashing and keeps the panel; every arrival starts
\* unacknowledged.
C9_Acknowledge ==
    [][/\ lastEvent'.kind = "acknowledge" =>
            /\ Flashing
            /\ attackAlert' = attackAlert
            /\ isAlertAcknowledged'
            /\ ~Flashing'
            /\ PanelVisible'
       /\ Arrival(lastEvent') => Flashing']_vars

C9_Witness ==
    /\ lastEvent.kind = "acknowledge"
    /\ PanelVisible
    /\ ~Flashing

\* C10: an active alert is cleared by dismiss and view-details only and
\* replaced by arrivals only; toast expiry, reboot completion, stream error,
\* seed result and block-IP completion leave it as it is.
C10_NoAutoDismiss ==
    [][/\ (attackAlert # Null /\ attackAlert' = Null) =>
            lastEvent'.kind \in {"dismiss", "viewDetails"}
       /\ (attackAlert # Null /\ attackAlert' # attackAlert) =>
            lastEvent'.kind \in {"dismiss", "viewDetails", "arrival"}
       /\ lastEvent'.kind \in {"toastExpire", "rebootComplete", "streamError",
                               "seed", "blockSuccess", "blockFailure"} =>
            attackAlert' = attackAlert]_vars

C10_Witness ==
    /\ attackAlert # Null
    /\ lastEvent.kind = "toastExpire"

\* C11: the displayed list is the live store followed by the first
\* max(0, 6 - n) fallback entries when connected with n > 0 live entries, and
\* the six fallback entries otherwise; it is never empty and never cuts a
\* live entry.
C11_DisplayComposition ==
    LET n == Len(liveThreats) IN
    /\ Len(allThreats) > 0
    /\ IF isBackendConnected /\ n > 0
       THEN /\ Len(allThreats) = Max(6, n)
            /\ \A k \in 1..n : allThreats[k] = liveThreats[k]
            /\ \A k \in (n + 1)..6 : allThreats[k] = MOCK_THREAT_LOGS[k - n]
       ELSE /\ Len(allThreats) = 6
            /\ \A k \in 1..6 : allThreats[k] = MOCK_THREAT_LOGS[k]

\* four live entries and two of the fallback
C11_Witness ==
    /\ isBackendConnected
    /\ Len(liveThreats) = 4
    /\ Len(allThreats) = 6
    /\ allThreats[5] = MOCK_THREAT_LOGS[1]

\* C12: a non-empty seed batch becomes the store, in the same order, and
\* sets connected; the display is the batch followed by the fallback
\* padding; no alert is raised, no node is touched.
C12_SeedReplacesStore ==
    [][(lastEvent'.kind = "seed" /\ Len(lastEvent'.batch) > 0) =>
        LET batch == lastEvent'.batch IN
        /\ liveThreats' = batch
        /\ isBackendConnected'
        /\ allThreats' = batch \o SubSeq(MOCK_THREAT_LOGS, 1, 6 - Len(batch))
        /\ UNCHANGED <<alertVars, nodeVars, toast, selectedThreat>>]_vars

\* the seed [3, 2, 1] arrives after the stream has delivered something
C12_Witness ==
    /\ lastEvent.kind = "seed"
    /\ Len(lastEvent.batch) = 3
    /\ delivered > 0
    /\ liveThreats = lastEvent.batch
    /\ Len(allThreats) = 6

\* C13: a failed seed fetch and an empty batch change neither the store nor
\* the connected flag and show nothing; before any arrival the display
\* is the fallback corpus.
C13_EmptySeedIsSilent ==
    [][(lastEvent'.kind = "seed" /\ Len(lastEvent'.batch) = 0) =>
        /\ UNCHANGED <<feedVars, alertVars, nodeVars, toast, selectedThreat>>
        /\ delivered = 0 =>
             /\ liveThreats' = << >>
             /\ ~isBackendConnected'
             /\ allThreats' = MOCK_THREAT_LOGS]_vars

C13_Witness ==
    /\ lastEvent.kind = "seed"
    /\ Len(lastEvent.batch) = 0
    /\ delivered = 0
    /\ ~isBackendConnected
    /\ allThreats = MOCK_THREAT_LOGS

\* C14: a stored threat leaves the store only as the last element of a full
\* store, in a step that accepts a new arrival.
C14_OnlyBoundEviction ==
    [][\A k \in 1..Len(liveThreats) :
         (\A j \in 1..Len(liveThreats') : liveThreats'[j].id # liveThreats[k].id) =>
            /\ Len(liveThreats) = StoreBound
            /\ Accepted(lastEvent')
            /\ k = Len(liveThreats)]_vars

\* C15: at most one reboot timer is pending per node, and a reboot request
\* for a node whose reboot is pending changes nothing.
C15_OneTimerPerNode ==
    \A i \in 0..2 : rebootTimers[i] <= 1

\* C16: node i is marked as rebooting exactly while a reboot timer of node i
\* is pending.
C16_MarkWhilePending ==
    \A i \in 0..2 : (rebootingIndex = i) <=> (rebootTimers[i] > 0)

\* C17: the completion of a reboot of node i turns active into offline and
\* anything else into active, sets the uptime to '0d 0h', keeps the requests
\* counter and leaves the other two nodes alone.
C17_RebootCompletion ==
    [][lastEvent'.kind = "rebootComplete" =>
        \E i \in 0..2 :
            /\ rebootTimers'[i] = rebootTimers[i] - 1
            /\ nodes'[i].status = IF nodes[i].status = "active" THEN "offline" ELSE "active"
            /\ nodes'[i].status # "under_attack"
            /\ nodes'[i].uptime = "0d 0h"
            /\ nodes'[i].requests = nodes[i].requests
            /\ \A j \in 0..2 \ {i} : nodes'[j] = nodes[j]]_vars

\* node 0 was attacked, then its reboot completed
C17_Witness ==
    /\ lastEvent.kind = "rebootComplete"
    /\ nodes[0].status = "active"
    /\ nodes[0].uptime = "0d 0h"
    /\ nodes[0].requests > InitialNodes[0].requests

\* C18: when the only pending reboot of node 0 completes, node 0's requests
\* counter is its value at the request plus the number of arrivals accepted
\* since, and its status is the one the completion writes.
C18_RebootKeepsArrivals ==
    [][(lastEvent'.kind = "rebootComplete" /\ rebootTimers[0] = 1 /\ rebootTimers'[0] = 0) =>
        /\ nodes'[0].requests = rebootSnap.requests + (accepted - rebootSnap.accepted)
        /\ nodes'[0].status \in {"active", "offline"}]_vars

\* C19: the nodes are always n1, n2, n3 in this order, and an arrival changes
\* nothing but node 0's status and requests.
C19_ArrivalTouchesNodeZero ==
    /\ [](DOMAIN nodes = 0..2 /\ \A i \in 0..2 : nodes[i].id = InitialNodes[i].id)
    /\ [][Arrival(lastEvent') =>
            /\ nodes'[1] = nodes[1]
            /\ nodes'[2] = nodes[2]
            /\ nodes'[0] = [nodes[0] EXCEPT !.status = "under_attack",
                                           !.requests = nodes[0].requests + 1]
            /\ \A i \in 0..2 :
                 /\ nodes'[i].name = InitialNodes[i].name
                 /\ nodes'[i].region = InitialNodes[i].region
                 /\ nodes'[i].uptime = nodes[i].uptime]_vars

\* an arrival while a reboot of node 1 is pending and marked
C19_Witness ==
    /\ Arrival(lastEvent)
    /\ rebootTimers[1] > 0
    /\ rebootingIndex = 1
    /\ nodes[0].status = "under_attack"

\* C20: the filtered list is the displayed list restricted, in its order, to
\* the entries whose type, ip, location or description contains the query
\* (letter case ignored, an empty query matching all) and whose type is the
\* filter type unless that is 'all'; the grid is its first min(6, count)
\* entries and the count is the number of matches.
C20_FilteredList ==
    LET q == toLowerCase(searchQuery)
        Text(t) == {toLowerCase(t.type), toLowerCase(t.ip),
                    toLowerCase(t.location), toLowerCase(t.description)}
        Match(t) == /\ (searchQuery = "" \/ \E f \in Text(t) : includes(f, q))
                    /\ (filterType = "all" \/ t.type = filterType)
        hits == {k \in 1..Len(allThreats) : Match(allThreats[k])}
        Rank(k) == Cardinality({j \in hits : j <= k})
    IN  /\ matchCount = Cardinality(hits)
        /\ Len(filteredThreats) = matchCount
        /\ \A k \in hits : filteredThreats[Rank(k)] = allThreats[k]
        /\ shownCount = Min(6, matchCount)
        /\ \A j \in 1..shownCount : gridThreats[j] = filteredThreats[j]

\* "sql" finds the SQL Injection entries among more than six displayed
C20_Witness ==
    /\ searchQuery = "sql"
    /\ filterType = "all"
    /\ Len(allThreats) > 6
    /\ matchCount > 0
    /\ matchCount < Len(allThreats)
    /\ \A j \in 1..matchCount : filteredThreats[j].type = "SQL Injection"

\* everything the Dashboard and its subscription hold
programVars == <<sessionVars, feedVars, toastVars, alertVars, selectedThreat, keyRender,
                 viewVars, nodeVars, seedState, blockInFlight>>

IsKey(e) == e.kind \in { "key" \o key : key \in Keys }

\* C21: with the selection at index i of the n entries of the displayed
\* list, next selects the entry at (i + 1) mod n and previous the entry at
\* (i - 1 + n) mod n (indices from 0), by button or by arrow key.
C21_Wraparound ==
    [][\A i \in 1..Len(allThreats) :
          allThreats[i] = selectedThreat =>
            /\ lastEvent'.kind \in {"navigateNext", "keyArrowRight"} =>
                 selectedThreat' = allThreats[(i % Len(allThreats)) + 1]
            /\ lastEvent'.kind \in {"navigatePrev", "keyArrowLeft"} =>
                 selectedThreat' =
                     allThreats[((i - 2 + Len(allThreats)) % Len(allThreats)) + 1]]_vars

\* C22: a key pressed while nothing is selected changes no state; Escape
\* pressed while a threat is selected clears the selection and leaves the
\* store, the alert, the filter state and everything else as they were.
C22_KeysNeedSelection ==
    [][/\ (IsKey(lastEvent') /\ selectedThreat = Null) => UNCHANGED programVars
       /\ (lastEvent'.kind = "keyEscape" /\ selectedThreat # Null) =>
            /\ selectedThreat' = Null
            /\ UNCHANGED <<sessionVars, feedVars, toast, alertVars, viewVars,
                           nodeVars, seedState, blockInFlight>>]_vars

C22_Witness ==
    /\ lastEvent.kind = "keyEscape"
    /\ lastEvent.active
    /\ selectedThreat = Null
    /\ attackAlert # Null
    /\ Len(liveThreats) > 0

\* C23: a toast that is shown is eventually cleared by its timer, with no
\* user action.
C23_ToastExpires == (toast # Null) ~> (toast = Null)

C23_Witness ==
    /\ lastEvent.kind = "toastExpire"
    /\ toast = Null
    /\ selectedThreat # Null

\* C28: a failed block-IP action sets one error toast, sends no further
\* request, and leaves the detail selection, the store and the alert as
\* they were.
C28_BlockFailure ==
    [][lastEvent'.kind = "blockFailure" =>
        /\ toast' # Null
        /\ toast'.type = "error"
        /\ blockInFlight' = blockInFlight - 1
        /\ UNCHANGED <<blocks, selectedThreat, feedVars, alertVars>>]_vars

C28_Witness ==
    /\ lastEvent.kind = "blockFailure"
    /\ toast # Null
    /\ toast.type = "error"
    /\ selectedThreat # Null
    /\ attackAlert # Null

\* C29: a successful block-IP response sets a success toast and clears the
\* detail selection in one step, whatever threat is selected when it
\* arrives; the store and the alert are unchanged.
C29_BlockSuccess ==
    [][lastEvent'.kind = "blockSuccess" =>
        /\ toast' # Null
        /\ toast'.type = "success"
        /\ selectedThreat' = Null
        /\ UNCHANGED <<feedVars, alertVars>>]_vars

C29_Witness ==
    /\ lastEvent.kind = "blockSuccess"
    /\ lastEvent.moved
    /\ selectedThreat = Null
    /\ toast # Null
    /\ toast.type = "success"

\* C24: the first call of the unsubscribe function closes the connection;
\* every further call changes nothing and releases nothing again; once it
\* has been called no message reaches onThreat and no error reaches onError.
C24_UnsubscribeIdempotent ==
    /\ [](connections >= 0)
    /\ [][/\ (lastEvent'.kind = "unsubscribe" /\ eventSource = "live") =>
               /\ eventSource' = "closed"
               /\ connections' = connections - 1
          /\ (lastEvent'.kind = "unsubscribe" /\ eventSource = "closed") =>
               UNCHANGED programVars
          /\ eventSource = "closed" =>
               lastEvent'.kind \notin {"arrival", "messageDropped", "streamError"}]_vars

C24_Witness ==
    /\ lastEvent.kind = "unsubscribe"
    /\ lastEvent.dup
    /\ eventSource = "closed"
    /\ connections = 0
    /\ delivered > 0

\* C26: a stream message that is not an attack-log record is dropped: it is
\* not handed to onThreat, the store, the alert and the nodes are unchanged
\* and the connection stays open.
C26_NonRecordDropped ==
    [][(\/ lastEvent'.kind = "messageDropped"
        \/ Arrival(lastEvent') /\ attackAlert'.id = UndefinedId) =>
         UNCHANGED <<feedVars, alertVars, nodes, delivered, eventSource, connections>>]_vars

\* C27: a transport error of the stream changes nothing: the store, the
\* connected flag, the alert and the connection are as before.
C27_StreamErrorFrame ==
    [][lastEvent'.kind = "streamError" => UNCHANGED programVars]_vars

C27_Witness ==
    /\ lastEvent.kind = "streamError"
    /\ isBackendConnected
    /\ Len(liveThreats) > 0
    /\ attackAlert # Null
    /\ eventSource = "live"

\* C25: the stream connection belongs to the mounted Dashboard: mounting
\* opens exactly one, logout closes it, at most one is open at any time and
\* none is open while the user is not authenticated.
C25_ScopedConnection ==
    /\ [](connections <= 1)
    /\ [](isAuthenticated => (eventSource = "live" /\ connections = 1))
    /\ [](~isAuthenticated => (eventSource # "live" /\ connections = 0))
    /\ [][lastEvent'.kind = "mount" => connections' = connections + 1]_vars
    /\ [][lastEvent'.kind = "logout" =>
            (eventSource' = "closed" /\ connections' = connections - 1)]_vars

C25_Witness ==
    /\ lastEvent.kind = "logout"
    /\ ~isAuthenticated
    /\ eventSource = "closed"
    /\ connections = 0
    /\ delivered > 0

\* C30: location is "{city}, {country}" when city is present and not
\* 'Unknown', else country when country is present, else 'Unknown'.
C30_Location ==
    \A k \in 1..Len(liveThreats) :
        LET city == GeoLog(liveThreats[k].id).city
            country == GeoLog(liveThreats[k].id).country
            Present(x) == x # Absent /\ x # ""
        IN  liveThreats[k].location =
                IF Present(city) /\ city # "Unknown"
                THEN city \o ", " \o (IF country = Absent THEN "undefined" ELSE country)
                ELSE IF Present(country) THEN country
                ELSE "Unknown"

C30_Witness ==
    /\ Len(liveThreats) = 2
    /\ GeoLog(liveThreats[1].id).city = "Unknown"
    /\ liveThreats[1].location = "FR"
    /\ liveThreats[2].location = "Paris, FR"

\* C31: the confidence of a threat of type 'Normal' is an integer in 20..49,
\* that of any other type an integer in 85..100, each of 85..100 being a
\* value getConfidence can return; every confidence is in 0..100.
C31_ConfidenceRange ==
    /\ \A k \in 1..Len(liveThreats) :
         /\ liveThreats[k].confidence \in 0..100
         /\ liveThreats[k].type = "Normal" => liveThreats[k].confidence \in 20..49
         /\ liveThreats[k].type # "Normal" => liveThreats[k].confidence \in 85..100
    /\ \A v \in 85..100 : \E k \in Randoms : getConfidence("SQL Injection", k) = v

\* the part of C31 without the value 100
C31_ConfidenceBelow100 ==
    /\ \A k \in 1..Len(liveThreats) :
         /\ liveThreats[k].confidence \in 0..100
         /\ liveThreats[k].type = "Normal" => liveThreats[k].confidence \in 20..49
         /\ liveThreats[k].type # "Normal" => liveThreats[k].confidence \in 85..99
    /\ \A v \in 85..99 : \E k \in Randoms : getConfidence("SQL Injection", k) = v
    /\ \A v \in 20..49 : \E k \in Randoms : getConfidence("Normal", k) = v

\* C32: the unmount of the Dashboard leaves no toast timer and no reboot
\* timer pending, so no callback of either runs afterwards; while the
\* Dashboard is mounted a toast timer ends only by firing or by the
\* replacement of its toast, a reboot timer only by firing.
C32_TeardownCancelsTimers ==
    /\ [][lastEvent'.kind = "logout" => (toastTimers' = {} /\ staleTimers' = 0)]_vars
    /\ [](lastEvent.kind # "staleRebootComplete")
    /\ [][(toastTimers # {} /\ toastTimers' # toastTimers) =>
            lastEvent'.kind \in {"toastExpire", "blockSuccess", "blockFailure", "logout"}]_vars
    /\ [][(\E i \in 0..2 : rebootTimers'[i] < rebootTimers[i]) =>
            lastEvent'.kind \in {"rebootComplete", "logout"}]_vars

\* the part of C32 about the toast timer
C32_ToastTimerCancelled ==
    /\ [][lastEvent'.kind = "logout" => toastTimers' = {}]_vars
    /\ [](~isAuthenticated => toastTimers = {})
    /\ [][(toastTimers # {} /\ toastTimers' # toastTimers) =>
            lastEvent'.kind \in {"toastExpire", "blockSuccess", "blockFailure", "logout"}]_vars
    /\ [][(\E i \in 0..2 : rebootTimers'[i] < rebootTimers[i]) =>
            lastEvent'.kind \in {"rebootComplete", "logout"}]_vars

\* C33: while the backend is marked connected the store is not empty, and
\* once connected the Dashboard stays connected, whatever the seed result,
\* the stream errors and the repeated arrivals that follow.
C33_ConnectedMonotone ==
    /\ [](isBackendConnected => Len(liveThreats) > 0)
    /\ [][isBackendConnected => isBackendConnected']_vars

\* a failed or empty seed after an arrival
C33_Witness ==
    /\ lastEvent.kind = "seed"
    /\ Len(lastEvent.batch) = 0
    /\ delivered > 0
    /\ isBackendConnected
    /\ Len(liveThreats) > 0

\* C34: no two entries of the displayed list have the same id.
C34_DisplayedIdsUnique ==
    \A j, k \in 1..Len(allThreats) :
        j # k => allThreats[j].id # allThreats[k].id

\* C35: while a threat is selected, the displayed list has an entry with
\* its id, so that navigateThreat finds a current index.
C35_SelectionDisplayed ==
    selectedThreat # Null => findIndex(allThreats, selectedThreat.id) # -1

\* C36: while a threat is selected, ArrowRight selects what the next button
\* selects and ArrowLeft what the previous button selects.
C36_KeysMatchButtons ==
    selectedThreat # Null =>
        \A direction \in {"next", "prev"} :
            navigateThreat(keyThreats, direction) = navigateThreat(allThreats, direction)

\* C37: the filter type is 'all' or the type of an entry of the displayed
\* list, and with an empty search query the filtered list is not empty.
C37_FilterOffered ==
    /\ filterType \in attackTypes
    /\ searchQuery = "" => Len(filteredThreats) > 0

C39_InactivityTimer ==
    /\ [](Cardinality(authProvider.timers) <= 1)
    /\ [](authProvider.timers # {} => authenticated(authProvider))
    /\ [][lastEvent'.kind = "activity" =>
            /\ authProvider'.timerIds = authProvider.timerIds + 1
            /\ authProvider'.timers = {authProvider'.timerIds}]_vars
    /\ [][lastEvent'.kind \in {"providerLogout", "inactivityExpire", "verifyrejected"} =>
            (authProvider'.timers = {} /\ ~authenticated(authProvider'))]_vars
    /\ [][lastEvent'.kind = "inactivityExpire" => authenticated(authProvider)]_vars

\* a logout while a timeout set by an activity event was pending
C39_Witness ==
    /\ lastEvent.kind = "providerLogout"
    /\ lastEvent.active
    /\ authProvider.timerIds >= 2
    /\ authProvider.timers = {}
    /\ authProvider.inactivityTimerRef = NoTimer

====
